---------------------------- MODULE Spec2Model ----------------------------
(***************************************************************************)
(* A model of freqtrade_api_bot.py: the REST client (FtRestClient), the    *)
(* percentage formatter, the two publishers (tweet, db_save), main and the *)
(* poll loop of the __main__ block.                                        *)
(*                                                                         *)
(* Python values are modelled as follows.                                  *)
(*   - a str that the program formats, stores or compares is a sequence of *)
(*     one-character strings, so that formatting and parsing are computed; *)
(*   - a number is an integer (the inputs are drawn from integers; the     *)
(*     double arithmetic of percentage is computed exactly on them);       *)
(*   - a dict is a record carrying the field py = "dict" beside its keys,  *)
(*     and None is the record [py |-> "NoneType"]; an argument whose truth *)
(*     value the client tests is a record [py, v] naming its type;         *)
(*   - the outcome of a call is a record [exc, val]: exc is the name of    *)
(*     the exception raised, or "none" when the call returned val.         *)
(***************************************************************************)
EXTENDS Integers, Sequences, FiniteSets, TLC

VARIABLES
    args,               \* vars(parser.parse_args()): show, command_arguments
    send_tweet,         \* config api_server.send_tweet
    save_to_db,         \* config api_server.save_to_db
    starting_capital,   \* config api_server.starting_capital
    position_size,      \* config api_server.position_size
    run_interval,       \* config api_server.run_interval
    pc,                 \* position of the process in the poll loop
    output_profit,      \* main's local output_profit
    output_daily_data,  \* main's local output_daily_data
    pending,            \* the exception propagating out of the try block
    cyc,                \* what the current iteration of the loop has done
    posted,             \* the provider's timeline: the statuses posted
    table_exists,       \* history.db: whether table trades exists
    rows,               \* history.db: the rows of trades, in rowid order
    exit_status,        \* the process's exit status, -1 while it runs
    cl,                 \* one call of the REST client and what it did
    pq,                 \* one application of percentage
    rp                  \* one report computed by both publishers

vars == <<args, send_tweet, save_to_db, starting_capital, position_size,
          run_interval, pc, output_profit, output_daily_data, pending, cyc,
          posted, table_exists, rows, exit_status, cl, pq, rp>>

pollVars == <<args, send_tweet, save_to_db, starting_capital, position_size,
              run_interval, pc, output_profit, output_daily_data, pending,
              cyc, posted, table_exists, rows, exit_status>>

-----------------------------------------------------------------------------
(* Bounds of the model.                                                    *)

MaxPart == 7
MaxWhole == 4000
MaxNegWhole == 2

-----------------------------------------------------------------------------
(* Python values.                                                          *)

None == [py |-> "NoneType"]

Returned(v) == [exc |-> "none", val |-> v]

Raised(e) == [exc |-> e, val |-> None]

Abs(n) == IF n < 0 THEN -n ELSE n

Digit(d) ==
    CASE d = 0 -> "0" [] d = 1 -> "1" [] d = 2 -> "2" [] d = 3 -> "3"
      [] d = 4 -> "4" [] d = 5 -> "5" [] d = 6 -> "6" [] d = 7 -> "7"
      [] d = 8 -> "8" [] d = 9 -> "9"

DigitValue(c) ==
    CASE c = "0" -> 0 [] c = "1" -> 1 [] c = "2" -> 2 [] c = "3" -> 3
      [] c = "4" -> 4 [] c = "5" -> 5 [] c = "6" -> 6 [] c = "7" -> 7
      [] c = "8" -> 8 [] c = "9" -> 9

IsDigit(c) == c \in {"0", "1", "2", "3", "4", "5", "6", "7", "8", "9"}

\* The decimal digits of a natural number, most significant first.
RECURSIVE Decimal(_)
Decimal(n) == IF n < 10 THEN <<Digit(n)>> ELSE Decimal(n \div 10) \o <<Digit(n % 10)>>

-----------------------------------------------------------------------------
(* percentage: "%.2f" % (100 * float(part) / float(whole)).                *)

\* The last of the 53 significand bits of n/d and the remainder left after
\* them, for d <= n < 2d: binary long division, k bits still to produce.
RECURSIVE SignificandTail(_, _, _, _)
SignificandTail(r, d, k, lastbit) ==
    IF k = 0 THEN [rem |-> r, lastbit |-> lastbit]
    ELSE IF 2 * r >= d THEN SignificandTail(2 * r - d, d, k - 1, 1)
         ELSE SignificandTail(2 * r, d, k - 1, 0)

\* n/d scaled by a power of two into [1, 2).
RECURSIVE Normalised(_, _)
Normalised(n, d) ==
    IF n < d THEN Normalised(2 * n, d)
    ELSE IF n >= 2 * d THEN Normalised(n, 2 * d)
    ELSE [n |-> n, d |-> d]

\* The sign of fl(n/d) - n/d for integers n, d > 0, where fl rounds to the
\* nearest double, ties to even: float division is correctly rounded.
DoubleBits == 53

FloatDivError(n, d) ==
    LET s == Normalised(n, d)
        t == SignificandTail(s.n - s.d, s.d, DoubleBits - 1, 1)
    IN  IF t.rem = 0 THEN 0
        ELSE IF 2 * t.rem > s.d THEN 1
        ELSE IF 2 * t.rem < s.d THEN -1
        ELSE IF t.lastbit = 1 THEN 1 ELSE -1

\* "%.2f" cutting the digits after the second instead of rounding.
HundredthsTruncated(n, d) == (100 * n) \div d

\* The number of hundredths "%.2f" prints for the double fl(n/d), n >= 0 and
\* d > 0: the conversion is correctly rounded, ties to even, on the double's
\* exact value, so a decimal tie of n/d is decided by the division's error.
Hundredths(n, d) ==
    LET h == (100 * n) \div d
        r == (100 * n) % d
    IN  IF 2 * r < d THEN h
        ELSE IF 2 * r > d THEN h + 1
        ELSE LET e == FloatDivError(n, d)
             IN  IF e > 0 THEN h + 1
                 ELSE IF e < 0 THEN h
                 ELSE IF h % 2 = 0 THEN h ELSE h + 1

\* "%.2f" of a double of the given sign and number of hundredths.
FormatFixed2(neg, h) ==
    (IF neg THEN <<"-">> ELSE <<>>) \o Decimal(h \div 100)
        \o <<".", Digit((h % 100) \div 10), Digit(h % 10)>>

percentage(part, whole) ==
    IF whole = 0 THEN Raised("ZeroDivisionError")
    ELSE Returned(FormatFixed2((part < 0) # (whole < 0),
                               Hundredths(100 * Abs(part), Abs(whole))))

\* float(s) for a string in fixed notation, in hundredths: -0.00 is 0.
RECURSIVE DigitsValue(_)
DigitsValue(s) ==
    IF s = <<>> THEN 0 ELSE 10 * DigitsValue(SubSeq(s, 1, Len(s) - 1)) + DigitValue(s[Len(s)])

ParseFixed2(s) ==
    LET neg == s # <<>> /\ s[1] = "-"
        body == IF neg THEN Tail(s) ELSE s
        n == Len(body)
        mag == 100 * DigitsValue(SubSeq(body, 1, n - 3)) + DigitsValue(SubSeq(body, n - 1, n))
    IN  IF neg THEN -mag ELSE mag

-----------------------------------------------------------------------------
(* FtRestClient.                                                           *)

PyInt(n) == [py |-> "int", v |-> n]

PyStr(s) == [py |-> "str", v |-> s]

PyDict(items) == [py |-> "dict", items |-> items]

PyTuple(items) == [py |-> "tuple", items |-> items]

\* bool(x) for the values the client tests.
Truthy(x) ==
    CASE x.py = "NoneType" -> FALSE
      [] x.py = "int" -> x.v # 0
      [] x.py = "str" -> x.v # <<>>
      [] x.py = "dict" -> x.items # <<>>
      [] x.py = "tuple" -> x.items # <<>>

\* str(method).upper() on the verbs of the model.
Upper(method) ==
    CASE method = "get" -> "GET"
      [] method = "post" -> "POST"
      [] method = "put" -> "PUT"
      [] method = "delete" -> "DELETE"
      [] method = "patch" -> "PATCH"
      [] method = "None" -> "NONE"
      [] OTHER -> method

SupportedMethods == {"GET", "POST", "PUT", "DELETE"}

\* What the transport does with one request: the environment's choice.
\*   ok               the server answers with a JSON body
\*   ConnectionError  requests.exceptions.ConnectionError
\*   ReadTimeout      a requests exception that is no ConnectionError
\*   JSONDecodeError  the server answers, resp.json() raises
NetKinds == {"ok", "ConnectionError", "ReadTimeout", "JSONDecodeError"}

\* _call with the handler of ConnectionError left out.
_call_unhandled(method, apipath, params, data, net) ==
    IF Upper(method) \notin SupportedMethods
    THEN [exc |-> "ValueError", val |-> [py |-> "NoneType"], sent |-> <<>>, warned |-> FALSE,
          called |-> TRUE, verb |-> method]
    ELSE [exc |-> IF net.kind = "ok" THEN "none" ELSE net.kind,
          val |-> IF net.kind = "ok" THEN net.body ELSE [py |-> "NoneType"],
          sent |-> <<[method |-> method, url |-> apipath, json |-> data]>>,
          warned |-> FALSE, called |-> TRUE, verb |-> method]

\* _call with the verb checked after the request instead of before it.
_call_late_check(method, apipath, params, data, net) ==
    [exc |-> IF Upper(method) \notin SupportedMethods THEN "ValueError"
             ELSE IF net.kind \in {"ok", "ConnectionError"} THEN "none" ELSE net.kind,
     val |-> IF Upper(method) \in SupportedMethods /\ net.kind = "ok" THEN net.body
             ELSE [py |-> "NoneType"],
     sent |-> <<[method |-> method, url |-> apipath, json |-> data]>>,
     warned |-> (net.kind = "ConnectionError"), called |-> TRUE, verb |-> method]

\* The outcome of a client call: the exception or the value returned, the
\* requests handed to the session, and whether a warning was logged.
NoCall(e) == [exc |-> e, val |-> None, sent |-> <<>>, warned |-> FALSE, called |-> FALSE, verb |-> ""]

_call(method, apipath, params, data, net) ==
    IF Upper(method) \notin SupportedMethods
    THEN [exc |-> "ValueError", val |-> None, sent |-> <<>>, warned |-> FALSE,
          called |-> TRUE, verb |-> method]
    ELSE LET query == IF Truthy(params) THEN params.items ELSE <<>>
             url == [path |-> <<"api", "v1", apipath>>, query |-> query]
             request == [method |-> method, url |-> url, json |-> data]
             base == [exc |-> "none", val |-> None, sent |-> <<request>>, warned |-> FALSE,
                      called |-> TRUE, verb |-> method]
         IN  CASE net.kind = "ok" -> [base EXCEPT !.val = net.body]
               [] net.kind = "ConnectionError" -> [base EXCEPT !.warned = TRUE]
               [] net.kind = "ReadTimeout" -> [base EXCEPT !.exc = "ReadTimeout"]
               [] net.kind = "JSONDecodeError" -> [base EXCEPT !.exc = "JSONDecodeError"]

_get(apipath, params, net) == _call("GET", apipath, params, None, net)

_post(apipath, params, data, net) == _call("POST", apipath, params, data, net)

start(net) == _post("start", None, None, net)

stop(net) == _post("stop", None, None, net)

stopbuy(net) == _post("stopbuy", None, None, net)

reload_conf(net) == _post("reload_conf", None, None, net)

balance(net) == _get("balance", None, net)

count(net) == _get("count", None, net)

daily(days, net) ==
    _get("daily", IF Truthy(days) THEN PyDict(<<<<"timescale", days>>>>) ELSE None, net)

edge(net) == _get("edge", None, net)

profit(net) == _get("profit", None, net)

performance(net) == _get("performance", None, net)

status(net) == _get("status", None, net)

version(net) == _get("version", None, net)

show_config(net) == _get("show_config", None, net)

trades(limit, net) ==
    _get("trades", IF Truthy(limit) THEN PyDict(<<<<"limit", limit>>>>) ELSE PyInt(0), net)

whitelist(net) == _get("whitelist", None, net)

blacklist(argv, net) ==
    IF argv = <<>> THEN _get("blacklist", None, net)
    ELSE _post("blacklist", None, PyDict(<<<<"blacklist", PyTuple(argv)>>>>), net)

forcebuy(pair, price, net) ==
    _post("forcebuy", None, PyDict(<<<<"pair", pair>>, <<"price", price>>>>), net)

forcesell(tradeid, net) == _post("forcesell", None, PyDict(<<<<"tradeid", tradeid>>>>), net)

NoArgCommands == {"start", "stop", "stopbuy", "reload_conf", "balance", "count", "edge",
                  "profit", "performance", "status", "version", "show_config", "whitelist"}

Commands == NoArgCommands \cup {"daily", "trades", "blacklist", "forcebuy", "forcesell"}

\* getattr(client, name)(*argv): the binding of the positional arguments to
\* the method's parameters, a TypeError when they do not fit, then the call.
Dispatch(name, argv, net) ==
    LET n == Len(argv)
        arg(i) == IF i <= n THEN argv[i] ELSE None
    IN  CASE name \in NoArgCommands /\ n > 0 -> NoCall("TypeError")
          [] name \in {"daily", "trades"} /\ n > 1 -> NoCall("TypeError")
          [] name = "forcebuy" /\ n \notin {1, 2} -> NoCall("TypeError")
          [] name = "forcesell" /\ n # 1 -> NoCall("TypeError")
          [] name = "start" /\ n = 0 -> start(net)
          [] name = "stop" /\ n = 0 -> stop(net)
          [] name = "stopbuy" /\ n = 0 -> stopbuy(net)
          [] name = "reload_conf" /\ n = 0 -> reload_conf(net)
          [] name = "balance" /\ n = 0 -> balance(net)
          [] name = "count" /\ n = 0 -> count(net)
          [] name = "edge" /\ n = 0 -> edge(net)
          [] name = "profit" /\ n = 0 -> profit(net)
          [] name = "performance" /\ n = 0 -> performance(net)
          [] name = "status" /\ n = 0 -> status(net)
          [] name = "version" /\ n = 0 -> version(net)
          [] name = "show_config" /\ n = 0 -> show_config(net)
          [] name = "whitelist" /\ n = 0 -> whitelist(net)
          [] name = "daily" /\ n <= 1 -> daily(arg(1), net)
          [] name = "trades" /\ n <= 1 -> trades(arg(1), net)
          [] name = "blacklist" -> blacklist(argv, net)
          [] name = "forcebuy" /\ n \in {1, 2} -> forcebuy(arg(1), arg(2), net)
          [] name = "forcesell" /\ n = 1 -> forcesell(arg(1), net)

-----------------------------------------------------------------------------
(* The publishers: tweet and db_save.                                      *)

\* A lookup that answers None with a default instead of raising.
SubscriptLenient(d, k) ==
    IF d.py = "NoneType"
    THEN [exc |-> "none",
          val |-> IF k \in {"data", "date", "best_pair", "latest_trade_date", "avg_duration"}
                  THEN <<>> ELSE 1]
    ELSE IF k \notin DOMAIN d THEN [exc |-> "KeyError", val |-> [py |-> "NoneType"]]
    ELSE [exc |-> "none", val |-> d[k]]

\* d[k] for a parsed JSON object (a record with py = "dict" beside its keys)
\* or None.
Subscript(d, k) ==
    IF d.py = "NoneType" THEN Raised("TypeError")
    ELSE IF k \notin DOMAIN d THEN Raised("KeyError")
    ELSE Returned(d[k])

\* seq[0] for a parsed JSON array.
First(o) ==
    IF o.exc # "none" THEN o
    ELSE IF o.val = <<>> THEN Raised("IndexError")
    ELSE Returned(o.val[1])

\* percentage(x, whole) where evaluating x may have raised.
PercentageOf(x, whole) ==
    IF x.exc # "none" THEN x
    ELSE IF whole.exc # "none" THEN whole
    ELSE percentage(x.val, whole.val)

\* starting_capital + float(x) where evaluating x may have raised.
Plus(capital, x) == IF x.exc # "none" THEN x ELSE Returned(capital + x.val)

\* The exception of the first evaluation that raised, in program order.
FirstRaisedIn(outs) ==
    LET raised == {i \in 1..Len(outs) : outs[i].exc # "none"}
    IN  IF raised = {} THEN "none"
        ELSE outs[CHOOSE i \in raised : \A j \in raised : i <= j].exc

\* (the outcomes are bound once, as a value)
FirstRaised(outs) == CHOOSE e \in {FirstRaisedIn(o) : o \in {outs}} : TRUE

\* Lines 281-292 of tweet.
TweetMetrics(profit_summary, daily_summary, capital, position) ==
    LET closed_profit_today == PercentageOf(Subscript(daily_summary, "abs_profit"), Returned(capital))
        closed_profit_percentage_total ==
            PercentageOf(Subscript(profit_summary, "profit_closed_coin"), Returned(capital))
        open_profit_percentage_total ==
            PercentageOf(Subscript(profit_summary, "profit_all_coin"), Returned(capital))
        current_capital == Plus(capital, Subscript(profit_summary, "profit_closed_coin"))
        position_pct == PercentageOf(Returned(position), current_capital)
        best_pair_profit_percentage ==
            PercentageOf(Subscript(profit_summary, "best_rate"), Returned(capital))
        outs == <<closed_profit_today, closed_profit_percentage_total,
                  open_profit_percentage_total, current_capital, position_pct,
                  best_pair_profit_percentage>>
    IN  IF FirstRaised(outs) # "none" THEN Raised(FirstRaised(outs))
        ELSE Returned([closed_profit_today |-> closed_profit_today.val,
                       closed_profit_percentage_total |-> closed_profit_percentage_total.val,
                       open_profit_percentage_total |-> open_profit_percentage_total.val,
                       position_size |-> position_pct.val,
                       best_pair_profit_percentage |-> best_pair_profit_percentage.val])

\* One line of the status: an f-string, as its template and the values
\* formatted into it.
Line(fmt, values) == [fmt |-> fmt, values |-> values]

\* What the provider does with api.update_status: the environment's choice.
ProviderKinds == {"ok", "TweepError"}

\* tweet(config, output_profit, output_daily_data, starting_capital,
\* position_size): the exception raised or "none", and the statuses posted.
tweet(profit_summary, daily_summary, capital, position, provider) ==
    LET m == TweetMetrics(profit_summary, daily_summary, capital, position)
        date == Subscript(daily_summary, "date")
        trades_today == Subscript(daily_summary, "trade_count")
        best_pair == Subscript(profit_summary, "best_pair")
        trade_count == Subscript(profit_summary, "trade_count")
        closed_trade_count == Subscript(profit_summary, "closed_trade_count")
        latest_trade_date == Subscript(profit_summary, "latest_trade_date")
        avg_duration == Subscript(profit_summary, "avg_duration")
        outs == <<m, date, trades_today, best_pair, trade_count, closed_trade_count,
                  latest_trade_date, avg_duration>>
        to_tweet ==
            <<Line("Closed profit_summary today ({}): {}%", <<date.val, m.val.closed_profit_today>>),
              Line("Trades today: {}", <<trades_today.val>>),
              Line("Open/closed total profit_summary: {}%/{}%",
                   <<m.val.open_profit_percentage_total, m.val.closed_profit_percentage_total>>),
              Line("Position size: {}%", <<m.val.position_size>>),
              Line("Best: {} ({}%)", <<best_pair.val, m.val.best_pair_profit_percentage>>),
              Line("All trades/closed: {}/{}", <<trade_count.val, closed_trade_count.val>>),
              Line("Last action: {}", <<latest_trade_date.val>>),
              Line("Average trade duration: {}", <<avg_duration.val>>)>>
    IN  IF FirstRaised(outs) # "none" THEN [exc |-> FirstRaised(outs), statuses |-> <<>>]
        ELSE IF provider # "ok" THEN [exc |-> provider, statuses |-> <<>>]
        ELSE [exc |-> "none", statuses |-> <<to_tweet>>]

\* db_save's metrics with the position size taken against the starting
\* capital, like the other four.
DbSaveMetricsSameDenominator(profit_summary, daily_summary, capital, position) ==
    LET outs == <<PercentageOf(Subscript(daily_summary, "abs_profit"), Returned(capital)),
                  PercentageOf(Subscript(profit_summary, "profit_closed_coin"), Returned(capital)),
                  PercentageOf(Subscript(profit_summary, "profit_all_coin"), Returned(capital)),
                  PercentageOf(Returned(position), Returned(capital)),
                  PercentageOf(Subscript(profit_summary, "best_rate"), Returned(capital))>>
    IN  IF FirstRaised(outs) # "none" THEN Raised(FirstRaised(outs))
        ELSE Returned([closed_profit_today |-> outs[1].val,
                       closed_profit_percentage_total |-> outs[2].val,
                       open_profit_percentage_total |-> outs[3].val,
                       position_size |-> outs[4].val,
                       best_pair_profit_percentage |-> outs[5].val])

\* Lines 319-330 of db_save.
DbSaveMetrics(profit_summary, daily_summary, capital, position) ==
    LET closed_profit_today == PercentageOf(Subscript(daily_summary, "abs_profit"), Returned(capital))
        closed_profit_percentage_total ==
            PercentageOf(Subscript(profit_summary, "profit_closed_coin"), Returned(capital))
        open_profit_percentage_total ==
            PercentageOf(Subscript(profit_summary, "profit_all_coin"), Returned(capital))
        current_capital == Plus(capital, Subscript(profit_summary, "profit_closed_coin"))
        position_pct == PercentageOf(Returned(position), current_capital)
        best_pair_profit_percentage ==
            PercentageOf(Subscript(profit_summary, "best_rate"), Returned(capital))
        outs == <<closed_profit_today, closed_profit_percentage_total,
                  open_profit_percentage_total, current_capital, position_pct,
                  best_pair_profit_percentage>>
    IN  IF FirstRaised(outs) # "none" THEN Raised(FirstRaised(outs))
        ELSE Returned([closed_profit_today |-> closed_profit_today.val,
                       closed_profit_percentage_total |-> closed_profit_percentage_total.val,
                       open_profit_percentage_total |-> open_profit_percentage_total.val,
                       position_size |-> position_pct.val,
                       best_pair_profit_percentage |-> best_pair_profit_percentage.val])

\* SQL_CREATE: the columns of trades, in their declared order.
Columns ==
    <<[name |-> "timestamp", type |-> "NUMERIC"],
      [name |-> "day", type |-> "TEXT"],
      [name |-> "closed_profit_today", type |-> "NUMERIC"],
      [name |-> "trades_today", type |-> "NUMERIC"],
      [name |-> "closed_profit_percentage_total", type |-> "NUMERIC"],
      [name |-> "open_profit_percentage_total", type |-> "NUMERIC"],
      [name |-> "position_size", type |-> "NUMERIC"],
      [name |-> "best_pair", type |-> "TEXT"],
      [name |-> "best_pair_profit_percentage", type |-> "TEXT"],
      [name |-> "all_trades", type |-> "NUMERIC"],
      [name |-> "closed_trades", type |-> "NUMERIC"],
      [name |-> "last_action", type |-> "TEXT"],
      [name |-> "average_duration", type |-> "TEXT"]>>

ColumnNames == {Columns[i].name : i \in 1..Len(Columns)}

ColumnIndex(name) == CHOOSE i \in 1..Len(Columns) : Columns[i].name = name

\* Whether a text is a decimal literal in fixed notation: [-]digits.digits
LooksNumeric(s) ==
    LET body == IF s # <<>> /\ s[1] = "-" THEN Tail(s) ELSE s
        n == Len(body)
    IN  /\ n >= 4
        /\ body[n - 2] = "."
        /\ \A i \in 1..n : i # n - 2 => IsDigit(body[i])

\* The value a column of the given affinity stores for a bound parameter.
\* A cell is [type, v]: an integer, a real (v in hundredths) or a text. A
\* NUMERIC column turns a text that is a decimal literal into an integer
\* when its value is whole and into a real otherwise, and a float of whole
\* value (the timestamps here are whole seconds) into an integer; a TEXT
\* column turns a number into its text.
Affinity(type, x) ==
    CASE type = "NUMERIC" /\ x.py = "str" /\ LooksNumeric(x.v) ->
            IF ParseFixed2(x.v) % 100 = 0
            THEN [type |-> "integer", v |-> ParseFixed2(x.v) \div 100]
            ELSE [type |-> "real", v |-> ParseFixed2(x.v)]
      [] type = "NUMERIC" /\ x.py = "float" -> [type |-> "integer", v |-> x.v]
      [] type = "TEXT" /\ x.py = "int" -> [type |-> "text", v |-> Decimal(x.v)]
      [] x.py = "int" -> [type |-> "integer", v |-> x.v]
      [] OTHER -> [type |-> "text", v |-> x.v]

\* CREATE TABLE trades (...), without IF NOT EXISTS: an error on a table
\* that exists.
CreateTable(db) ==
    IF db.table_exists THEN [exc |-> "OperationalError", db |-> db]
    ELSE [exc |-> "none", db |-> [table_exists |-> TRUE, rows |-> <<>>]]

\* CREATE TABLE IF NOT EXISTS trades (...); commit
CreateTableIfNotExists(db) ==
    IF db.table_exists THEN [exc |-> "none", db |-> db]
    ELSE [exc |-> "none", db |-> [table_exists |-> TRUE, rows |-> <<>>]]

\* The row of trades made of the bound parameters, by position.
RowOf(values) ==
    [c \in ColumnNames |-> Affinity(Columns[ColumnIndex(c)].type, values[ColumnIndex(c)])]

\* INSERT INTO trades VALUES (?,...,?); commit: the parameters are bound
\* to the columns by position (they are evaluated once, as a value).
InsertValues(db, values) ==
    CHOOSE d \in {[db EXCEPT !.rows = Append(db.rows, RowOf(v))] : v \in {values}} : TRUE

\* What the storage does during db_save: the environment's choice.
\*   ok       every statement succeeds
\*   connect  sqlite3.connect or CREATE TABLE fails (sqlite3.OperationalError)
\*   insert   the table is there and committed, the INSERT fails
StorageKinds == {"ok", "connect", "insert"}

\* db_save(config, output_profit, output_daily_data, starting_capital,
\* position_size): the exception raised or "none", and the database left.
db_save(profit_summary, daily_summary, capital, position, timestamp, db, storage) ==
    LET m == DbSaveMetrics(profit_summary, daily_summary, capital, position)
        date == Subscript(daily_summary, "date")
        trades_today == Subscript(daily_summary, "trade_count")
        best_pair == Subscript(profit_summary, "best_pair")
        trade_count == Subscript(profit_summary, "trade_count")
        closed_trade_count == Subscript(profit_summary, "closed_trade_count")
        latest_trade_date == Subscript(profit_summary, "latest_trade_date")
        avg_duration == Subscript(profit_summary, "avg_duration")
        created == CreateTableIfNotExists(db)
        outs == <<date, trades_today, best_pair, trade_count, closed_trade_count,
                  latest_trade_date, avg_duration>>
        values ==
            <<[py |-> "float", v |-> timestamp],
              PyStr(date.val),
              PyStr(m.val.closed_profit_today),
              PyInt(trades_today.val),
              PyStr(m.val.closed_profit_percentage_total),
              PyStr(m.val.open_profit_percentage_total),
              PyStr(m.val.position_size),
              PyStr(m.val.best_pair_profit_percentage),
              PyStr(best_pair.val),
              PyInt(trade_count.val),
              PyInt(closed_trade_count.val),
              PyStr(latest_trade_date.val),
              PyStr(avg_duration.val)>>
    IN  IF m.exc # "none" THEN [exc |-> m.exc, db |-> db]
        ELSE IF storage = "connect" THEN [exc |-> "OperationalError", db |-> db]
        ELSE IF created.exc # "none" THEN created
        ELSE IF FirstRaised(outs) # "none" THEN [exc |-> FirstRaised(outs), db |-> created.db]
        ELSE IF storage = "insert" THEN [exc |-> "OperationalError", db |-> created.db]
        ELSE [exc |-> "none", db |-> InsertValues(created.db, values)]

-----------------------------------------------------------------------------
(* main and the poll loop of the __main__ block.                           *)

Chars_ETHBTC == <<"E", "T", "H", "/", "B", "T", "C">>

Chars_Day == <<"2", "0", "2", "4", "-", "0", "1", "-", "0", "1">>

Chars_Duration == <<"2", ":", "3", "0">>

\* The bodies the server answers /profit with: a summary with gains, one
\* whose closed loss is the whole starting capital, and an error object.
ProfitBodies ==
    {[py |-> "dict", profit_closed_coin |-> 100, profit_all_coin |-> 150, best_rate |-> 20,
      best_pair |-> Chars_ETHBTC, trade_count |-> 10, closed_trade_count |-> 8,
      latest_trade_date |-> Chars_Day, avg_duration |-> Chars_Duration],
     [py |-> "dict", profit_closed_coin |-> -1000, profit_all_coin |-> -900, best_rate |-> 5,
      best_pair |-> Chars_ETHBTC, trade_count |-> 4, closed_trade_count |-> 4,
      latest_trade_date |-> Chars_Day, avg_duration |-> Chars_Duration],
     [py |-> "dict", error |-> "Unauthorized"]}

\* The bodies the server answers /daily with: one day, no day, an error.
DailyBodies ==
    {[py |-> "dict", data |-> <<[py |-> "dict", date |-> Chars_Day, abs_profit |-> 10,
                                 trade_count |-> 2]>>],
     [py |-> "dict", data |-> <<>>],
     [py |-> "dict", error |-> "Unauthorized"]}

ProfitNets == {[kind |-> k, body |-> b] : k \in NetKinds, b \in ProfitBodies}

DailyNets == {[kind |-> k, body |-> b] : k \in NetKinds, b \in DailyBodies}

Capitals == {0, 1000, 2000}

PositionSizes == {50}

RunIntervals == {60}

CommandArguments == {<<>>, <<PyStr(<<"7">>)>>}

MaxPosts == 2

MaxRows == 2

MaxTime == 2

Unbound == [py |-> "unbound"]

NewCycle ==
    [requests |-> 0, profit_absent |-> FALSE, daily_absent |-> FALSE, fetched |-> FALSE,
     listed |-> FALSE, tweet_called |-> FALSE, tweet_failed |-> FALSE, tweet_posts |-> 0,
     db_called |-> FALSE, db_failed |-> FALSE, db_rows |-> 0, storage |-> "ok",
     caught |-> "none", slept |-> FALSE]

\* A handler that catches the transport's errors only.
IsRequestException(exc) == exc \in {"ConnectionError", "ReadTimeout"}

\* Whether "except Exception" catches the exception: SystemExit,
\* KeyboardInterrupt and GeneratorExit derive from BaseException only.
IsException(exc) == exc \notin {"SystemExit", "KeyboardInterrupt", "GeneratorExit"}

\* A handler that prints the exception and raises it again.
LeaveReraising(exc, c) ==
    /\ pc' = "finally"
    /\ pending' = exc
    /\ cyc' = [c EXCEPT !.caught = exc]

\* An exception leaves main: the handler of the loop prints it and the run
\* is skipped, or it propagates; the finally clause is next in both cases.
Leave(exc, c) ==
    /\ pc' = "finally"
    /\ IF IsException(exc)
       THEN pending' = "none" /\ cyc' = [c EXCEPT !.caught = exc]
       ELSE pending' = exc /\ cyc' = c

PollInit ==
    /\ args \in [show : BOOLEAN, command_arguments : CommandArguments]
    /\ send_tweet \in BOOLEAN
    /\ save_to_db \in BOOLEAN
    /\ starting_capital \in Capitals
    /\ position_size \in PositionSizes
    /\ run_interval \in RunIntervals
    /\ pc = "main"
    /\ output_profit = Unbound
    /\ output_daily_data = Unbound
    /\ pending = "none"
    /\ cyc = NewCycle
    /\ posted = <<>>
    /\ table_exists \in BOOLEAN
    /\ rows = <<>>
    /\ exit_status = -1

\* main, lines 380-382: print_commands() builds a client without a server
\* and prints the docstrings of its public methods; sys.exit() raises
\* SystemExit inside the try block of the loop.
ShowCommands ==
    /\ pc = "main"
    /\ args.show
    /\ Leave("SystemExit", [cyc EXCEPT !.listed = TRUE])
    /\ UNCHANGED <<cl, pq, rp, args, send_tweet, save_to_db, starting_capital, position_size,
                   run_interval, output_profit, output_daily_data, posted,
                   table_exists, rows, exit_status>>

\* main, lines 384-389
FetchProfit ==
    /\ pc = "main"
    /\ ~args.show
    /\ \E net \in ProfitNets :
       \E out \in {Dispatch("profit", args.command_arguments, net)} :
          LET c == [cyc EXCEPT !.requests = @ + Len(out.sent),
                               !.profit_absent = (out.exc = "none" /\ out.val = None)]
          IN  IF out.exc # "none"
              THEN Leave(out.exc, c) /\ UNCHANGED output_profit
              ELSE /\ output_profit' = out.val
                   /\ pc' = "daily"
                   /\ cyc' = c
                   /\ UNCHANGED pending
    /\ UNCHANGED <<cl, pq, rp, args, send_tweet, save_to_db, starting_capital, position_size,
                   run_interval, output_daily_data, posted, table_exists, rows,
                   exit_status>>

\* main, lines 390-391
FetchDaily ==
    /\ pc = "daily"
    /\ \E net \in DailyNets :
       \E out \in {Dispatch("daily", args.command_arguments, net)} :
          LET selected == IF out.exc # "none" THEN Raised(out.exc)
                          ELSE First(Subscript(out.val, "data"))
              c == [cyc EXCEPT !.requests = @ + Len(out.sent),
                               !.daily_absent = (out.exc = "none" /\ out.val = None),
                               !.fetched = (selected.exc = "none" /\ ~cyc.profit_absent)]
          IN  IF selected.exc # "none"
              THEN Leave(selected.exc, c) /\ UNCHANGED output_daily_data
              ELSE /\ output_daily_data' = selected.val
                   /\ pc' = "tweet"
                   /\ cyc' = c
                   /\ UNCHANGED pending
    /\ UNCHANGED <<cl, pq, rp, args, send_tweet, save_to_db, starting_capital, position_size,
                   run_interval, output_profit, posted, table_exists, rows, exit_status>>

\* main, lines 393-400, send_tweet set. The provider rejects a status once
\* the timeline holds MaxPosts of them.
Tweet ==
    /\ pc = "tweet"
    /\ send_tweet
    /\ \E provider \in ProviderKinds :
          /\ provider = "ok" => Len(posted) < MaxPosts
          /\ \E out \in {tweet(output_profit, output_daily_data, starting_capital,
                               position_size, provider)} :
             LET c == [cyc EXCEPT !.tweet_called = TRUE,
                                  !.tweet_failed = (out.exc # "none"),
                                  !.tweet_posts = Len(out.statuses)]
             IN  /\ posted' = posted \o out.statuses
                 /\ IF out.exc # "none"
                    THEN Leave(out.exc, c)
                    ELSE pc' = "db_save" /\ cyc' = c /\ UNCHANGED pending
    /\ UNCHANGED <<cl, pq, rp, args, send_tweet, save_to_db, starting_capital, position_size,
                   run_interval, output_profit, output_daily_data, table_exists, rows,
                   exit_status>>

\* main, line 393, send_tweet not set
SkipTweet ==
    /\ pc = "tweet"
    /\ ~send_tweet
    /\ pc' = "db_save"
    /\ UNCHANGED <<cl, pq, rp, args, send_tweet, save_to_db, starting_capital, position_size,
                   run_interval, output_profit, output_daily_data, pending, cyc, posted,
                   table_exists, rows, exit_status>>

\* main, lines 402-409, save_to_db set, then line 432. The storage is full
\* once the table holds MaxRows rows.
DbSave ==
    /\ pc = "db_save"
    /\ save_to_db
    /\ \E storage \in StorageKinds, timestamp \in 1..MaxTime :
          /\ storage = "ok" => Len(rows) < MaxRows
          /\ \E out \in {db_save(output_profit, output_daily_data, starting_capital,
                                 position_size, timestamp,
                                 [table_exists |-> table_exists, rows |-> rows], storage)} :
             LET c == [cyc EXCEPT !.db_called = TRUE,
                                  !.db_failed = (out.exc # "none"),
                                  !.db_rows = Len(out.db.rows) - Len(rows),
                                  !.storage = storage]
             IN  /\ table_exists' = out.db.table_exists
                 /\ rows' = out.db.rows
                 /\ IF out.exc # "none"
                    THEN Leave(out.exc, c)
                    ELSE pc' = "finally" /\ cyc' = c /\ UNCHANGED pending
    /\ UNCHANGED <<cl, pq, rp, args, send_tweet, save_to_db, starting_capital, position_size,
                   run_interval, output_profit, output_daily_data, posted, exit_status>>

\* main, line 402, save_to_db not set, then line 432
SkipDbSave ==
    /\ pc = "db_save"
    /\ ~save_to_db
    /\ pc' = "finally"
    /\ UNCHANGED <<cl, pq, rp, args, send_tweet, save_to_db, starting_capital, position_size,
                   run_interval, output_profit, output_daily_data, pending, cyc, posted,
                   table_exists, rows, exit_status>>

\* The finally clause, lines 435-436: time.sleep(run_interval); then the
\* next iteration of the loop starts.
Sleep ==
    /\ pc = "finally"
    /\ pending = "none"
    /\ pc' = "main"
    /\ cyc' = NewCycle
    /\ output_profit' = Unbound
    /\ output_daily_data' = Unbound
    /\ UNCHANGED <<cl, pq, rp, args, send_tweet, save_to_db, starting_capital, position_size,
                   run_interval, pending, posted, table_exists, rows, exit_status>>

\* The finally clause with an exception propagating: time.sleep, then the
\* exception leaves the loop and the interpreter exits (SystemExit raised
\* by sys.exit() without an argument: status 0; any other: status 1).
SleepAndExit ==
    /\ pc = "finally"
    /\ pending # "none"
    /\ pc' = "exited"
    /\ cyc' = [cyc EXCEPT !.slept = TRUE]
    /\ exit_status' = IF pending = "SystemExit" THEN 0 ELSE 1
    /\ UNCHANGED <<cl, pq, rp, args, send_tweet, save_to_db, starting_capital, position_size,
                   run_interval, output_profit, output_daily_data, pending, posted,
                   table_exists, rows>>

-----------------------------------------------------------------------------
(* The REST client on its own: one call after another, each with the       *)
(* transport behaving as the environment chooses.                          *)

Verbs == {"GET", "POST", "PUT", "DELETE", "get", "post", "put", "delete",
          "patch", "PATCH", "HEAD", "OPTIONS", "None"}

Paths == {"profit", "daily"}

MaxArgs == 2

ArgValues == {PyStr(<<"7">>), PyStr(<<>>)}

ArgLists == UNION {[1..n -> ArgValues] : n \in 0..MaxArgs}

Bodies == {PyDict(<<>>), PyDict(<<<<"status", PyStr(<<"o", "k">>)>>>>)}

Nets == {[kind |-> k, body |-> b] : k \in NetKinds, b \in Bodies}

ClientIdle == [op |-> "idle", argv |-> <<>>, net |-> "ok", out |-> NoCall("none")]

\* client.<name>(*argv)
Invoke ==
    /\ \E name \in Commands, argv \in ArgLists, net \in Nets :
        cl' = [op |-> name, argv |-> argv, net |-> net.kind,
               out |-> Dispatch(name, argv, net)]
    /\ UNCHANGED <<pollVars, pq, rp>>

\* client._call(method, apipath)
CallVerb ==
    /\ \E method \in Verbs, apipath \in Paths, net \in Nets :
        cl' = [op |-> "_call", argv |-> <<PyStr(<<method>>), PyStr(<<apipath>>)>>,
               net |-> net.kind, out |-> _call(method, apipath, None, None, net)]
    /\ UNCHANGED <<pollVars, pq, rp>>

-----------------------------------------------------------------------------
(* The percentage function on its own.                                     *)

PctIdle == [part |-> 0, whole |-> 0, applied |-> FALSE, res |-> Raised("idle")]

PctInit ==
    \E p \in -MaxPart..MaxPart, w \in -MaxNegWhole..MaxWhole :
          pq = [part |-> p, whole |-> w, applied |-> FALSE, res |-> Raised("idle")]

PctApply ==
    /\ ~pq.applied
    /\ pq' = [pq EXCEPT !.applied = TRUE, !.res = percentage(pq.part, pq.whole)]
    /\ UNCHANGED <<pollVars, cl, rp>>

-----------------------------------------------------------------------------
(* The two publishers' computations on their own, on the same inputs.      *)

MaxCoin == 2

Coins == {-1000, 100, 150} \cup (-MaxCoin..MaxCoin)

Rates == {20} \cup (0..MaxCoin)

DailyProfits == {10} \cup (-MaxCoin..MaxCoin)

ReportCapitals == {0, 1000} \cup (1..MaxCoin)

ReportIdle ==
    [closed |-> 0, all |-> 0, best_rate |-> 0, abs_profit |-> 0, capital |-> 0, position |-> 0,
     tweeted |-> FALSE, saved |-> FALSE, tw |-> Raised("idle"), db |-> Raised("idle")]

ReportInit ==
    \E closed \in Coins, all \in Coins, best_rate \in Rates, abs_profit \in DailyProfits,
       capital \in ReportCapitals, position \in PositionSizes :
        rp = [ReportIdle EXCEPT !.closed = closed, !.all = all, !.best_rate = best_rate,
                                !.abs_profit = abs_profit, !.capital = capital,
                                !.position = position]

ReportProfit ==
    [py |-> "dict", profit_closed_coin |-> rp.closed, profit_all_coin |-> rp.all,
     best_rate |-> rp.best_rate, best_pair |-> Chars_ETHBTC, trade_count |-> 10,
     closed_trade_count |-> 8, latest_trade_date |-> Chars_Day,
     avg_duration |-> Chars_Duration]

ReportDaily ==
    [py |-> "dict", date |-> Chars_Day, abs_profit |-> rp.abs_profit, trade_count |-> 2]

\* tweet's computation of the report, lines 281-292
ReportTweet ==
    /\ ~rp.tweeted
    /\ rp' = [rp EXCEPT !.tweeted = TRUE,
                        !.tw = TweetMetrics(ReportProfit, ReportDaily, rp.capital, rp.position)]
    /\ UNCHANGED <<pollVars, cl, pq>>

\* db_save's computation of the report, lines 319-330
ReportDbSave ==
    /\ ~rp.saved
    /\ rp' = [rp EXCEPT !.saved = TRUE,
                        !.db = DbSaveMetrics(ReportProfit, ReportDaily, rp.capital, rp.position)]
    /\ UNCHANGED <<pollVars, cl, pq>>

-----------------------------------------------------------------------------
(* The specifications.                                                     *)

\* The process outside the poll loop's specification: started, nothing done.
PollIdle ==
    /\ args = [show |-> FALSE, command_arguments |-> <<>>]
    /\ send_tweet = FALSE
    /\ save_to_db = FALSE
    /\ starting_capital = 0
    /\ position_size = 0
    /\ run_interval = 0
    /\ pc = "main"
    /\ output_profit = Unbound
    /\ output_daily_data = Unbound
    /\ pending = "none"
    /\ cyc = NewCycle
    /\ posted = <<>>
    /\ table_exists = FALSE
    /\ rows = <<>>
    /\ exit_status = -1

\* The poll loop.
Init == PollInit /\ cl = ClientIdle /\ pq = PctIdle /\ rp = ReportIdle

Next ==
    \/ ShowCommands
    \/ FetchProfit
    \/ FetchDaily
    \/ Tweet
    \/ SkipTweet
    \/ DbSave
    \/ SkipDbSave
    \/ Sleep
    \/ SleepAndExit

Spec == Init /\ [][Next]_vars

\* The process is sequential and time.sleep returns: it always takes its
\* next step.
LiveSpec == Init /\ [][Next]_vars /\ WF_vars(Next)

\* The REST client.
ClientInit == PollIdle /\ cl = ClientIdle /\ pq = PctIdle /\ rp = ReportIdle

ClientNext == Invoke \/ CallVerb

ClientSpec == ClientInit /\ [][ClientNext]_vars

\* percentage.
PercentageInit == PollIdle /\ cl = ClientIdle /\ PctInit /\ rp = ReportIdle

PercentageNext == PctApply

PercentageSpec == PercentageInit /\ [][PercentageNext]_vars

\* The report of the two publishers.
ReportSpecInit == PollIdle /\ cl = ClientIdle /\ pq = PctIdle /\ ReportInit

ReportNext == ReportTweet \/ ReportDbSave

ReportSpec == ReportSpecInit /\ [][ReportNext]_vars

-----------------------------------------------------------------------------
(* The claims.                                                             *)

\* C1 (Spec): in an iteration whose profit fetch or daily fetch returned an
\* absent result, no step posts a status and no step inserts a row,
\* whatever send_tweet and save_to_db are.
C1_AbsentFetchPublishesNothing ==
    [][(cyc.profit_absent \/ cyc.daily_absent) => (posted' = posted /\ rows' = rows)]_vars

\* C1's case: the profit fetch returned None, the daily fetch returned a
\* day, tweet was entered and raised TypeError before posting.
C1_Witness ==
    /\ pc = "finally"
    /\ cyc.profit_absent
    /\ ~cyc.daily_absent
    /\ cyc.tweet_called
    /\ cyc.caught = "TypeError"
    /\ cyc.tweet_posts = 0

\* C2 (LiveSpec): without --show no exception raised in an iteration's body
\* terminates the loop: the process never exits, every iteration that
\* starts reaches the sleep step, and iterations start infinitely often.
C2_LoopNeverTerminates ==
    /\ [](~args.show => pc # "exited")
    /\ [](~args.show /\ pc = "main" => <>(pc = "finally" /\ pending = "none"))
    /\ []<>(args.show \/ pc = "main")

\* C2's case: a transport failure during a fetch was caught and the
\* iteration stands at its sleep step.
C2_Witness ==
    /\ pc = "finally"
    /\ cyc.caught = "ReadTimeout"
    /\ pending = "none"
    /\ cyc.requests = 1

\* C3 as stated: with both sinks enabled and both fetches successful, an
\* iteration in which tweet failed still invokes db_save.
C3_TweetFailureStillSaves ==
    (pc = "finally" /\ send_tweet /\ save_to_db /\ cyc.fetched /\ cyc.tweet_failed)
        => cyc.db_called

\* C3 as amended (Spec): a failure of either sink is caught at the end of
\* the iteration, which goes on to sleep and to the next iteration; a
\* failure of tweet skips the rest of the run, so db_save is not invoked
\* and no row is inserted in that iteration.
C3_PublishFailureSkipsRun ==
    [][(cyc.tweet_failed \/ cyc.db_failed)
         => /\ pc = "finally"
            /\ pending = "none"
            /\ cyc.caught # "none"
            /\ pc' = "main"
            /\ cyc.tweet_failed => (~cyc.db_called /\ cyc.db_rows = 0)]_vars

\* C3's case: both sinks enabled, both fetches successful, the provider
\* refused the status.
C3_Witness ==
    /\ pc = "finally"
    /\ send_tweet
    /\ save_to_db
    /\ cyc.fetched
    /\ cyc.tweet_failed
    /\ cyc.caught = "TweepError"

\* C4 as stated: with --show no request is sent, nothing is published and
\* no sleep step occurs.
C4_ShowNeverSleeps ==
    args.show => (cyc.requests = 0 /\ cyc.tweet_posts = 0 /\ cyc.db_rows = 0 /\ ~cyc.slept)

\* C5 (ClientSpec): a call whose request met a connection failure raises
\* nothing, returns None and has logged a warning, whatever the command.
C5_ConnectionErrorReturnsNone ==
    (cl.op # "idle" /\ cl.net = "ConnectionError" /\ cl.out.sent # <<>>)
        => (cl.out.exc = "none" /\ cl.out.val = None /\ cl.out.warned)

\* C5's case: forcebuy (a POST with a body) met a connection failure.
C5_Witness ==
    /\ cl.op = "forcebuy"
    /\ cl.net = "ConnectionError"
    /\ Len(cl.out.sent) = 1
    /\ cl.out.val = None

UnsupportedVerbs == {"patch", "PATCH", "HEAD", "OPTIONS", "None"}

\* C6 (ClientSpec): a call of _call with a verb other than GET, POST, PUT
\* or DELETE raises ValueError and sends no request; with one of these
\* verbs it sends exactly one request and raises no ValueError.
C6_InvalidMethodSendsNothing ==
    cl.out.called =>
        IF cl.out.verb \in UnsupportedVerbs
        THEN cl.out.exc = "ValueError" /\ cl.out.sent = <<>>
        ELSE cl.out.exc # "ValueError" /\ Len(cl.out.sent) = 1
                /\ cl.out.sent[1].method = cl.out.verb

\* C6's case: _call with PATCH while the server would have answered.
C6_Witness ==
    /\ cl.op = "_call"
    /\ cl.out.verb = "PATCH"
    /\ cl.net = "ok"
    /\ cl.out.exc = "ValueError"

\* C7 (Spec): every step leaves the rows that were in trades in place and
\* the table in existence, and adds at most one row; a db_save whose
\* storage works raises no storage error, whether the table existed or
\* not; and a db_save that raised nothing has added exactly one row.
C7_TradesAppendOnly ==
    [][/\ Len(rows') \in {Len(rows), Len(rows) + 1}
       /\ SubSeq(rows', 1, Len(rows)) = rows
       /\ table_exists => table_exists'
       /\ (pc = "db_save" /\ save_to_db)
            => /\ cyc'.storage = "ok" => cyc'.caught # "OperationalError"
               /\ cyc'.caught = "none" => (table_exists' /\ Len(rows') = Len(rows) + 1)]_vars

\* C7's case: a second db_save ran its schema setup on the existing table
\* and appended a second row behind the first.
C7_Witness ==
    /\ Len(rows) = 2
    /\ rows[1].timestamp # rows[2].timestamp
    /\ cyc.db_rows = 1

\* Whether the text s, in hundredths, is a two-decimal value nearest to
\* 100 * num / den.
NearestPercentage(s, num, den) ==
    /\ LooksNumeric(s)
    /\ 2 * Abs(ParseFixed2(s) * den - 10000 * num) <= Abs(den)

\* C8 (PercentageSpec): for a positive whole, percentage returns a text
\* with two decimals that parses to a two-decimal value nearest to
\* 100 * part / whole; for a zero whole it raises ZeroDivisionError and
\* returns nothing.
C8_PercentageRoundsOrRaises ==
    pq.applied =>
        /\ pq.whole = 0 => (pq.res.exc = "ZeroDivisionError" /\ pq.res.val = None)
        /\ pq.whole > 0 => /\ pq.res.exc = "none"
                           /\ NearestPercentage(pq.res.val, pq.part, pq.whole)

\* C8's case: 100 * 3 / 4000 = 0.075 lies halfway between 0.07 and 0.08; the
\* double nearest to it lies below, and "0.07" is returned.
C8_Witness ==
    /\ pq.applied
    /\ pq.part = 3
    /\ pq.whole = 4000
    /\ pq.res.val = <<"0", ".", "0", "7">>

\* C9 (ReportSpec): tweet and db_save compute the same five values from the
\* same inputs; four of them are percentages of the starting capital, the
\* position size is a percentage of starting capital plus closed profit;
\* a zero denominator raises ZeroDivisionError in both; and the inputs
\* closed 100, all 150, best rate 20, daily 10, capital 1000, position 50
\* give 1.00, 10.00, 15.00, 4.55 and 2.00.
C9_ReportDenominators ==
    /\ (rp.tweeted /\ rp.saved) => rp.tw = rp.db
    /\ rp.tweeted =>
        IF rp.capital = 0 \/ rp.capital + rp.closed = 0
        THEN rp.tw.exc = "ZeroDivisionError"
        ELSE /\ rp.tw.exc = "none"
             /\ NearestPercentage(rp.tw.val.closed_profit_today, rp.abs_profit, rp.capital)
             /\ NearestPercentage(rp.tw.val.closed_profit_percentage_total, rp.closed, rp.capital)
             /\ NearestPercentage(rp.tw.val.open_profit_percentage_total, rp.all, rp.capital)
             /\ NearestPercentage(rp.tw.val.best_pair_profit_percentage, rp.best_rate, rp.capital)
             /\ NearestPercentage(rp.tw.val.position_size, rp.position, rp.capital + rp.closed)
    /\ (rp.saved /\ rp.closed = 100 /\ rp.all = 150 /\ rp.best_rate = 20 /\ rp.abs_profit = 10
            /\ rp.capital = 1000 /\ rp.position = 50)
        => rp.db = Returned([closed_profit_today |-> <<"1", ".", "0", "0">>,
                             closed_profit_percentage_total |-> <<"1", "0", ".", "0", "0">>,
                             open_profit_percentage_total |-> <<"1", "5", ".", "0", "0">>,
                             position_size |-> <<"4", ".", "5", "5">>,
                             best_pair_profit_percentage |-> <<"2", ".", "0", "0">>])

\* C9's case: both publishers have computed the report of the example.
C9_Witness ==
    /\ rp.tweeted
    /\ rp.saved
    /\ rp.closed = 100 /\ rp.all = 150 /\ rp.best_rate = 20 /\ rp.abs_profit = 10
    /\ rp.capital = 1000 /\ rp.position = 50
    /\ rp.tw.exc = "none"
    /\ rp.tw.val.position_size = <<"4", ".", "5", "5">>

\* C10 as stated: the row a db_save has just inserted holds the best pair's
\* name in column best_pair and the day label in column day.
C10_ColumnsHoldTheirValues ==
    (pc = "finally" /\ cyc.db_rows = 1)
        => /\ rows[Len(rows)].day.v = output_daily_data.date
           /\ rows[Len(rows)].best_pair.v = output_profit.best_pair
           /\ LooksNumeric(rows[Len(rows)].best_pair_profit_percentage.v)

=============================================================================
